---------------------------- MODULE Spec2Model ----------------------------
(***************************************************************************)
(* A model of the SEDI insider monitor's core: the text extractor          *)
(* (parsers/sedi_weekly_pdf.py), the name normaliser                       *)
(* (matching/normalise.py) and the matcher (matching/matcher.py).          *)
(*                                                                         *)
(* Each component is a pure function of its inputs.  It is modelled as a   *)
(* state machine whose Init draws the inputs and whose actions are the     *)
(* iterations of the function's loops; there is one specification per      *)
(* component (SpecParse, SpecNorm, SpecScore, SpecMatch), the variables of *)
(* the other components being held at their idle values.                   *)
(***************************************************************************)
EXTENDS Integers, Sequences, FiniteSets, TLC

VARIABLES
    \* ---- parse_sedi_pdf ----
    pc,            \* position in parse_sedi_pdf: "pages", "lines", "done", "idle"
    doc,           \* history: the pages opened so far, each the lines scanned on it
    issuer,        \* local `issuer`
    insider,       \* local `insider`
    relationship,  \* local `relationship`
    records,       \* local `records`
    emitted_at,    \* history: for each record, <<page, line>> of its row in doc
    df,            \* the returned table
    \* ---- normalise_name ----
    npc,           \* "start", "once", "twice", "idle"
    name,          \* the input name, a sequence of characters
    titles,        \* the input title set
    norm1,         \* normalise_name(name, titles)
    norm2,         \* normalise_name(norm1, {})
    \* ---- score_pair ----
    spc,           \* "start", "scored", "idle"
    sp_in,         \* the arguments of score_pair and the value WRatio returns
    sp_out,        \* the returned (overall, breakdown)
    \* ---- match_transactions_to_donors ----
    mpc,           \* "prepare", "transactions", "donors", "done", "idle"
    transactions,  \* input table: sequence of transaction rows
    donors,        \* input table: sequence of donor rows
    thresholds,    \* input Thresholds(high, review)
    nick,          \* the loaded nickname table
    mtitles,       \* the loaded title set
    wratio,        \* the values fuzz.WRatio has returned so far (memo of a pure function)
    dprep,         \* donors with name_norm and alias_firsts
    tx,            \* transactions with insider_norm
    ti,            \* index of the transaction of the outer loop
    di,            \* index of the next donor of the inner loop
    best_score,    \* local `best_score`
    best,          \* local `best`: index of the donor row, or None
    best_breakdown,\* local `best_breakdown`
    rows           \* local `rows`

parseVars == <<pc, doc, issuer, insider, relationship, records, emitted_at, df>>
normVars  == <<npc, name, titles, norm1, norm2>>
scoreVars == <<spc, sp_in, sp_out>>
matchVars == <<mpc, transactions, donors, thresholds, nick, mtitles, wratio, dprep,
               tx, ti, di, best_score, best, best_breakdown, rows>>
vars == <<parseVars, normVars, scoreVars, matchVars>>

\* Python's None.  No string value of the model is spelled this way.
None == "None"

Min(S) == CHOOSE x \in S : \A y \in S : x <= y

Max(S) == CHOOSE x \in S : \A y \in S : x >= y

(***************************************************************************)
(*                              TEXT EXTRACTOR                             *)
(***************************************************************************)

\* Bounds of the extractor's inputs.
MaxPages == 2
MaxTotalLines == 4

\* TXLINE_RE's \d{6,9}.
TxMinDigits == 6
TxMaxDigits == 9

(* A line of page text after raw.strip(), described by what the regular     *)
(* expressions look at: how it starts (tag), the text after the header's    *)
(* colon and whitespace (val), the length of its leading digit run (nd),    *)
(* the digit run itself (txid), and what follows the digits and whitespace  *)
(* (rest; None when nothing follows).  rest lists what the row's searches   *)
(* find in it: the ISO dates in order, the security words present, the      *)
(* thousands-grouped numbers in order, and the nature code ending it.       *)
Rest1 == [dates |-> <<"2024-01-02", "2024-01-05">>, secs |-> {"Warrants", "Options"},
          qtys |-> <<"+200,000", "1,000">>, nature |-> "16 - Acquisition"]

Rest2 == [dates |-> <<>>, secs |-> {"Common Shares", "Options"},
          qtys |-> <<>>, nature |-> None]

NoRest == [dates |-> <<>>, secs |-> {}, qtys |-> <<>>, nature |-> None]

Header(tag, v) == [tag |-> tag, val |-> v, nd |-> 0, txid |-> "", rest |-> NoRest, ws |-> FALSE]

Digits(n, id, ws, r) == [tag |-> "digits", val |-> "", nd |-> n, txid |-> id, rest |-> r, ws |-> ws]

Lines ==
    { Header("blank", ""),
      Header("issuer", "Acme Corp"),
      Header("insider", "Smith, John"), Header("insider", "Doe, Jane"),
      Header("insider", ""),
      Header("rel", "4 - Director"),
      Digits(7, "1000001", TRUE, Rest1),
      Digits(9, "200000002", TRUE, Rest2),
      Digits(5, "10001", TRUE, Rest1) }

\* ISSUER_RE = ^Issuer:\s*(.+)$ : the value after the colon is not empty.
IssuerMatch(line) == line.tag = "issuer" /\ line.val # ""

\* INSIDER_RE = ^Insider:\s*(.+)$
InsiderMatch(line) == line.tag = "insider" /\ line.val # ""

\* REL_RE = ^Insider's Relationship to Issuer:\s*(.+)$
RelMatch(line) == line.tag = "rel" /\ line.val # ""

\* TXLINE_RE = ^(\d{6,9})\s+(.*)$ : 6 to 9 digits, then whitespace.
TxMatch(line) ==
    /\ line.tag = "digits"
    /\ line.nd >= TxMinDigits /\ line.nd <= TxMaxDigits
    /\ line.ws

\* Line 53, `if m_tx and insider`: the row is emitted.
EmitsNoInsiderCheck(line, ins) == TxMatch(line)

Emits(line, ins) == TxMatch(line) /\ ins # None /\ ins # ""

\* Lines 32-50: the context after a line, as [issuer, insider, relationship].
ScanContextKeepRel(c, line) ==
    IF line.tag = "blank" THEN c
    ELSE IF IssuerMatch(line) THEN [c EXCEPT !.issuer = line.val]
    ELSE IF InsiderMatch(line) THEN [c EXCEPT !.insider = line.val]
    ELSE IF RelMatch(line) THEN [c EXCEPT !.relationship = line.val]
    ELSE c

ScanContext(c, line) ==
    IF line.tag = "blank" THEN c
    ELSE IF IssuerMatch(line) THEN [c EXCEPT !.issuer = line.val]
    ELSE IF InsiderMatch(line) THEN [c EXCEPT !.insider = line.val, !.relationship = None]
    ELSE IF RelMatch(line) THEN [c EXCEPT !.relationship = line.val]
    ELSE c

\* Lines 54-92: the record of a transaction row under the context c.
MakeRecord(line, c) ==
    LET rest == line.rest IN
    [ tx_id        |-> line.txid,
      insider_name |-> c.insider,
      issuer       |-> c.issuer,
      relationship |-> c.relationship,
      date_tx      |-> IF rest.dates # <<>> THEN rest.dates[1] ELSE None,
      nature       |-> rest.nature,
      security     |-> IF "Common Shares" \in rest.secs THEN "Common Shares"
                       ELSE IF "Warrants" \in rest.secs THEN "Warrants"
                       ELSE IF "Options" \in rest.secs THEN "Options"
                       ELSE None,
      qty_or_value |-> IF rest.qtys # <<>> THEN rest.qtys[1] ELSE None ]

\* subset=['tx_id', 'insider_name', 'issuer']
DedupKey(r) == <<r.tx_id, r.insider_name, r.issuer>>

\* The rows of recs at the indices in keep, in order.
RowsAt(recs, keep) ==
    LET F[i \in 0..Len(recs)] ==
            IF i = 0 THEN <<>>
            ELSE IF i \in keep THEN Append(F[i-1], recs[i]) ELSE F[i-1]
    IN F[Len(recs)]

\* Lines 93-97: drop_duplicates(subset=..., keep='first').
DropDuplicatesKeepLast(recs) ==
    RowsAt(recs, {i \in 1..Len(recs) :
                    \A j \in (i+1)..Len(recs) : DedupKey(recs[j]) # DedupKey(recs[i])})

DropDuplicates(recs) ==
    RowsAt(recs, {i \in 1..Len(recs) :
                    \A j \in 1..(i-1) : DedupKey(recs[j]) # DedupKey(recs[i])})

TotalLines == LET F[i \in 0..Len(doc)] == IF i = 0 THEN 0 ELSE F[i-1] + Len(doc[i])
              IN F[Len(doc)]

ParseStart ==
    /\ pc = "pages" /\ doc = <<>>
    /\ issuer = None /\ insider = None /\ relationship = None
    /\ records = <<>> /\ emitted_at = <<>> /\ df = <<>>

ParseIdle ==
    /\ pc = "idle" /\ doc = <<>>
    /\ issuer = None /\ insider = None /\ relationship = None
    /\ records = <<>> /\ emitted_at = <<>> /\ df = <<>>

\* Lines 22-28: the next page; a page without text is skipped, any other
\* page starts with the three context fields None.
NextPage ==
    /\ pc = "pages"
    /\ Len(doc) < MaxPages
    /\ \E hasText \in BOOLEAN :
         /\ doc' = Append(doc, <<>>)
         /\ IF hasText
            THEN /\ issuer' = None /\ insider' = None /\ relationship' = None
                 /\ pc' = "lines"
            ELSE UNCHANGED <<issuer, insider, relationship, pc>>
    /\ UNCHANGED <<records, emitted_at, df>>

\* Lines 30-92: one iteration of the loop over the page's lines.
ScanLine ==
    /\ pc = "lines"
    /\ TotalLines < MaxTotalLines
    /\ \E line \in Lines :
         LET c  == [issuer |-> issuer, insider |-> insider, relationship |-> relationship]
             c2 == ScanContext(c, line)
             hdr == line.tag = "blank" \/ IssuerMatch(line) \/ InsiderMatch(line)
                    \/ RelMatch(line)
         IN /\ doc' = [doc EXCEPT ![Len(doc)] = Append(@, line)]
            /\ issuer' = c2.issuer
            /\ insider' = c2.insider
            /\ relationship' = c2.relationship
            /\ IF ~hdr /\ Emits(line, insider)
               THEN /\ records' = Append(records, MakeRecord(line, c))
                    /\ emitted_at' = Append(emitted_at, <<Len(doc), Len(doc[Len(doc)]) + 1>>)
               ELSE UNCHANGED <<records, emitted_at>>
    /\ UNCHANGED <<pc, df>>

\* Line 30: the page's lines are exhausted.
EndPage ==
    /\ pc = "lines"
    /\ pc' = "pages"
    /\ UNCHANGED <<doc, issuer, insider, relationship, records, emitted_at, df>>

\* Lines 93-97: the pages are exhausted; de-duplicate and return.
ParseReturn ==
    /\ pc = "pages"
    /\ df' = DropDuplicates(records)
    /\ pc' = "done"
    /\ UNCHANGED <<doc, issuer, insider, relationship, records, emitted_at>>

(***************************************************************************)
(*                              NAME NORMALISER                            *)
(***************************************************************************)

\* A string is a sequence of one-character strings.
Upper == <<"A","B","C","D","E","F","G","H","I","J","K","L","M",
           "N","O","P","Q","R","S","T","U","V","W","X","Y","Z">>

Lower == <<"a","b","c","d","e","f","g","h","i","j","k","l","m",
           "n","o","p","q","r","s","t","u","v","w","x","y","z">>

\* str.lower(), character by character.
LowerChar(c) == IF \E i \in 1..Len(Upper) : Upper[i] = c
                THEN Lower[CHOOSE i \in 1..Len(Upper) : Upper[i] = c]
                ELSE c

ToLower(s) == [i \in 1..Len(s) |-> LowerChar(s[i])]

\* strip_diacritics: NFKD decomposition, then the combining marks dropped.
StripDiacriticsChar(c) == IF c = "é" THEN "e" ELSE c

strip_diacritics(s) == [i \in 1..Len(s) |-> StripDiacriticsChar(s[i])]

\* re.sub(r"[.,]", ' ', s)
SubPunct(s) == [i \in 1..Len(s) |-> IF s[i] \in {".", ","} THEN " " ELSE s[i]]

\* re.sub(r"\s+", ' ', s)
CollapseWs(s) ==
    LET F[i \in 0..Len(s)] ==
            IF i = 0 THEN <<>>
            ELSE IF s[i] = " " /\ i > 1 /\ s[i-1] = " " THEN F[i-1]
            ELSE Append(F[i-1], s[i])
    IN F[Len(s)]

\* str.strip()
Strip(s) ==
    LET nonws == {i \in 1..Len(s) : s[i] # " "}
    IN IF nonws = {} THEN <<>> ELSE SubSeq(s, Min(nonws), Max(nonws))

\* str.split(sep): every occurrence of sep separates, empty pieces are kept.
SplitStep(pieces, c, sep) ==
    IF c = sep THEN Append(pieces, <<>>)
    ELSE [pieces EXCEPT ![Len(pieces)] = Append(@, c)]

Split(s, sep) ==
    LET F[i \in 0..Len(s)] ==
            IF i = 0 THEN << <<>> >> ELSE SplitStep(F[i-1], s[i], sep)
    IN F[Len(s)]

\* str.split(): split on runs of whitespace, no empty pieces.
NonEmpty(p) == p # <<>>

SplitWs(s) == SelectSeq(Split(s, " "), NonEmpty)

\* sep.join(parts)
Join(parts, sep) ==
    LET F[i \in 0..Len(parts)] ==
            IF i = 0 THEN <<>>
            ELSE IF i = 1 THEN parts[1]
            ELSE F[i-1] \o sep \o parts[i]
    IN F[Len(parts)]

StripEach(parts) == [i \in 1..Len(parts) |-> Strip(parts[i])]

\* Lines 21-27: the form with honorifics removed.
StrippedForm(n, T) ==
    LET s1 == strip_diacritics(n)
        s2 == SubPunct(s1)
        s3 == ToLower(Strip(CollapseWs(s2)))
        notTitle(tok) == tok \notin T
        tokens == SelectSeq(Split(s3, " "), notTitle)
    IN Join(tokens, <<" ">>)

\* Lines 30-33: the segments of the ORIGINAL name between commas, stripped, the
\* empty ones dropped.
CommaParts(n) == SelectSeq(StripEach(Split(n, ",")), NonEmpty)

\* Lines 30 and 33: the 'Last, First' -> 'First Last' conversion applies.
Reorders(n) == (\E i \in 1..Len(n) : n[i] = ",") /\ Len(CommaParts(n)) >= 2

\* Lines 34-35.
ReorderedForm(n) ==
    LET parts == CommaParts(n)
    IN Strip(CollapseWs(ToLower(parts[2]) \o <<" ">> \o ToLower(parts[1])))

\* Lines 18-36.
normalise_name(n, T) ==
    IF n = <<>> THEN <<>>
    ELSE IF Reorders(n) THEN ReorderedForm(n)
    ELSE StrippedForm(n, T)

\* Lines 38-44.
split_first_last(n) ==
    IF n = <<>> THEN << <<>>, <<>> >>
    ELSE LET toks == SplitWs(n)
         IN IF Len(toks) = 1 THEN <<toks[1], toks[1]>>
            ELSE <<toks[1], toks[Len(toks)]>>

\* Bounds of the normaliser's inputs.
MaxNameLen == 4

NormChars == {"a", "B", "é", ".", ",", " "}

NormNames == UNION {[1..n -> NormChars] : n \in 0..MaxNameLen}

NormTitleSets == { {}, {<<"a">>}, {<<"b">>, <<"e">>} }

NormStart ==
    /\ npc = "start"
    /\ name \in NormNames
    /\ titles \in NormTitleSets
    /\ norm1 = <<>> /\ norm2 = <<>>

NormIdle ==
    /\ npc = "idle" /\ name = <<>> /\ titles = {} /\ norm1 = <<>> /\ norm2 = <<>>

\* normalise_name(name, titles)
Normalise ==
    /\ npc = "start"
    /\ norm1' = normalise_name(name, titles)
    /\ npc' = "once"
    /\ UNCHANGED <<name, titles, norm2>>

\* normalise_name of the result, with an empty title set
Renormalise ==
    /\ npc = "once"
    /\ norm2' = normalise_name(norm1, {})
    /\ npc' = "twice"
    /\ UNCHANGED <<name, titles, norm1>>

(***************************************************************************)
(*                                 SCORING                                 *)
(***************************************************************************)

\* Line 40: the weights of last_exact and first_ratio, in hundredths.
LastWeight == 55
FirstWeight == 25

\* Line 38: alias_bonus += 10
AliasBonus == 10

\* Line 33: int(ins_last == dn_last) * 100
LastExactScore == 100

\* fuzz.WRatio returns a similarity between 0 and 100.
WRatioMax == 100

\* Line 40: int(0.55 * last_exact + 0.25 * first_ratio + alias_bonus), in integer
\* arithmetic.  The product 0.55 * 100 is 55.00000000000001 in binary floating
\* point; for every last_exact in {0, 100}, first_ratio in 0..100 and alias_bonus in
\* {0, 10} the truncated float sum equals this quotient.
OverallDoubleBonus(last_exact, first_ratio, alias_bonus) ==
    (LastWeight * last_exact + FirstWeight * first_ratio + 100 * 2 * alias_bonus) \div 100

Overall(last_exact, first_ratio, alias_bonus) ==
    (LastWeight * last_exact + FirstWeight * first_ratio + 100 * alias_bonus) \div 100

\* What is known of fuzz.WRatio(a, b), a function of the rapidfuzz library: 0 when
\* either string is empty, 100 for two equal strings, else some value in 0..WRatioMax.
WRatioValues(a, b) ==
    IF a = <<>> \/ b = <<>> THEN {0}
    ELSE IF a = b THEN {WRatioMax}
    ELSE 0..WRatioMax

\* Lines 29-45, with w the value fuzz.WRatio(ins_first, dn_first) returns.
score_pair(insider_norm, donor_norm, donor_alias_firsts, w) ==
    LET ins == split_first_last(insider_norm)
        dn  == split_first_last(donor_norm)
        last_exact  == IF ins[2] = dn[2] THEN LastExactScore ELSE 0
        first_ratio == w
        alias_bonus == IF ins[1] \in donor_alias_firsts THEN AliasBonus ELSE 0
    IN [ overall   |-> Overall(last_exact, first_ratio, alias_bonus),
         breakdown |-> [last_exact |-> last_exact, first_ratio |-> first_ratio,
                        alias_bonus |-> alias_bonus] ]

\* Normalised names and alias sets for score_pair.
n_john == <<"j","o","h","n">>
n_jon == <<"j","o","n">>
n_bob == <<"b","o","b">>
n_john_smith == <<"j","o","h","n"," ","s","m","i","t","h">>
n_jon_smith == <<"j","o","n"," ","s","m","i","t","h">>
n_bob_lee == <<"b","o","b"," ","l","e","e">>

ScoreNames == {<<>>, n_john, n_john_smith, n_jon_smith, n_bob_lee}

ScoreAliasSets == { {}, {n_john}, {n_jon, n_john}, {n_bob} }

ScoreStart ==
    /\ spc = "start"
    /\ \E i \in ScoreNames, d \in ScoreNames, al \in ScoreAliasSets :
         \E w \in WRatioValues(split_first_last(i)[1], split_first_last(d)[1]) :
            sp_in = [insider_norm |-> i, donor_norm |-> d, donor_alias_firsts |-> al, w |-> w]
    /\ sp_out = <<>>

\* One call of score_pair.
ScorePair ==
    /\ spc = "start"
    /\ sp_out' = score_pair(sp_in.insider_norm, sp_in.donor_norm,
                            sp_in.donor_alias_firsts, sp_in.w)
    /\ spc' = "scored"
    /\ UNCHANGED sp_in

(***************************************************************************)
(*                                 MATCHER                                 *)
(***************************************************************************)

\* Bounds of the matcher's inputs.
MaxTx == 2
MaxDonors == 2

\* `best = None`, for a variable that otherwise holds the index of a donor row.
NoDonor == 0

\* Lines 10-13: Thresholds' defaults.
DefaultHigh == 90
DefaultReview == 80

\* Raw names, as they come in the tables.
r_Smith_John == <<"S","m","i","t","h",","," ","J","o","h","n">>
r_Jon_Smith == <<"J","o","n"," ","S","m","i","t","h">>
r_John_Smith == <<"J","o","h","n"," ","S","m","i","t","h">>
r_Robert_Lee == <<"R","o","b","e","r","t"," ","L","e","e">>

\* Transaction rows; the columns the matcher only copies (issuer, date_tx, nature,
\* security, qty_or_value, unit_or_exercise_price) are left out.
TxRows ==
    { [tx_id |-> "123456789", insider_name |-> r_Smith_John],
      [tx_id |-> "1000001",   insider_name |-> r_Jon_Smith] }

DonorRows ==
    { [name |-> r_John_Smith, donor_id |-> "1", aliases |-> <<>>],
      [name |-> r_Jon_Smith,  donor_id |-> "2", aliases |-> <<>>],
      [name |-> r_Robert_Lee, donor_id |-> "3", aliases |-> <<" ","J","o","n",";">>] }

\* Nickname tables: canonical first name -> alias spellings.
NickTables ==
    { [k \in {} |-> <<>>],
      [k \in {n_jon} |-> <<n_john, <<"j","o","n","n","y">>>>] }

\* Thresholds(high, review); nothing validates them.
ThresholdChoices ==
    { [high |-> DefaultHigh, review |-> DefaultReview],
      [high |-> DefaultReview, review |-> DefaultHigh],
      [high |-> DefaultReview, review |-> DefaultReview],
      [high |-> -1, review |-> -1] }

\* The values fuzz.WRatio returns for two different non-empty first names in the
\* matcher's runs.
WRatioSamples == {0, 40, 100}

SeqsUpTo(S, n) == UNION {[1..k -> S] : k \in 0..n}

Range(f) == {f[i] : i \in DOMAIN f}

\* Lines 19-27.
token_firsts_NicknamesOnly(nm, nicknames) ==
    IF nm = <<>> THEN {}
    ELSE LET first == SplitWs(nm)[1]
         IN IF first \in DOMAIN nicknames THEN Range(nicknames[first]) ELSE {}

token_firsts(nm, nicknames) ==
    IF nm = <<>> THEN {}
    ELSE LET first == SplitWs(nm)[1]
         IN {first} \cup (IF first \in DOMAIN nicknames THEN Range(nicknames[first]) ELSE {})

\* Line 55: [a.strip().lower() for a in str(s).split(';') if a.strip()]
ManualAliases(al) == {ToLower(a) : a \in Range(SelectSeq(StripEach(Split(al, ";")), NonEmpty))}

\* Lines 53-59: a donor row with name_norm and alias_firsts.
PrepareDonor(d, T, nicknames) ==
    LET name_norm == normalise_name(d.name, T)
        first == IF name_norm # <<>> THEN SplitWs(name_norm)[1] ELSE <<>>
    IN [ name |-> d.name, donor_id |-> d.donor_id, name_norm |-> name_norm,
         alias_firsts |-> ManualAliases(d.aliases) \cup token_firsts(first, nicknames) ]

\* Lines 63-64: a transaction row with insider_norm.
PrepareTx(t, T) ==
    [ tx_id |-> t.tx_id, insider_name |-> t.insider_name,
      insider_norm |-> normalise_name(t.insider_name, T) ]

\* Lines 68-70: the locals at the start of a transaction's scan.
StartBestZero == [best_score |-> 0, best |-> NoDonor, best_breakdown |-> <<>>]

StartBest == [best_score |-> -1, best |-> NoDonor, best_breakdown |-> <<>>]

\* Line 73: `if s > best_score`
ReplacesOnTie(s, b) == s >= b

Replaces(s, b) == s > b

\* Lines 77-81.
StatusStrictHigh(score, thr) ==
    IF score > thr.high THEN "likely"
    ELSE IF score >= thr.review THEN "review"
    ELSE "low"

Status(score, thr) ==
    IF score >= thr.high THEN "likely"
    ELSE IF score >= thr.review THEN "review"
    ELSE "low"

\* fuzz.WRatio(a, b): the value it returned before for the same arguments, else any
\* value it can return.
WRatioOutcomes(a, b) ==
    IF \E e \in wratio : e[1] = a /\ e[2] = b
    THEN {e[3] : e \in {x \in wratio : x[1] = a /\ x[2] = b}}
    ELSE IF a # <<>> /\ b # <<>> /\ a # b THEN WRatioSamples
    ELSE WRatioValues(a, b)

MatchStart ==
    /\ mpc = "prepare"
    /\ transactions \in SeqsUpTo(TxRows, MaxTx)
    /\ donors \in SeqsUpTo(DonorRows, MaxDonors)
    /\ thresholds \in ThresholdChoices
    /\ nick \in NickTables
    /\ mtitles = {<<"j","r">>}
    /\ wratio = {} /\ dprep = <<>> /\ tx = <<>>
    /\ ti = 0 /\ di = 0
    /\ best_score = StartBest.best_score /\ best = NoDonor /\ best_breakdown = <<>>
    /\ rows = <<>>

\* Lines 48-64: the tables are prepared.
Prepare ==
    /\ mpc = "prepare"
    /\ dprep' = [i \in 1..Len(donors) |-> PrepareDonor(donors[i], mtitles, nick)]
    /\ tx' = [i \in 1..Len(transactions) |-> PrepareTx(transactions[i], mtitles)]
    /\ mpc' = "transactions"
    /\ UNCHANGED <<transactions, donors, thresholds, nick, mtitles, wratio, ti, di,
                   best_score, best, best_breakdown, rows>>

\* Lines 67-70: the outer loop takes the next transaction.
NextTransaction ==
    /\ mpc = "transactions"
    /\ ti < Len(tx)
    /\ ti' = ti + 1
    /\ best_score' = StartBest.best_score
    /\ best' = StartBest.best
    /\ best_breakdown' = StartBest.best_breakdown
    /\ di' = 1
    /\ mpc' = "donors"
    /\ UNCHANGED <<transactions, donors, thresholds, nick, mtitles, wratio, dprep, tx, rows>>

\* Lines 71-76: one iteration of the inner loop.
ScoreDonor ==
    /\ mpc = "donors"
    /\ di <= Len(dprep)
    /\ LET t == tx[ti]
           d == dprep[di]
           a == split_first_last(t.insider_norm)[1]
           b == split_first_last(d.name_norm)[1]
       IN \E w \in WRatioOutcomes(a, b) :
            LET r == score_pair(t.insider_norm, d.name_norm, d.alias_firsts, w)
            IN /\ wratio' = wratio \cup {<<a, b, w>>}
               /\ IF Replaces(r.overall, best_score)
                  THEN /\ best_score' = r.overall
                       /\ best' = di
                       /\ best_breakdown' = r.breakdown
                  ELSE UNCHANGED <<best_score, best, best_breakdown>>
    /\ di' = di + 1
    /\ UNCHANGED <<mpc, transactions, donors, thresholds, nick, mtitles, dprep, tx, ti, rows>>

\* Lines 77-98: the donors are exhausted; the transaction's row is appended.
AppendRow ==
    /\ mpc = "donors"
    /\ di > Len(dprep)
    /\ rows' = Append(rows,
         [ tx_id        |-> tx[ti].tx_id,
           insider_name |-> tx[ti].insider_name,
           insider_norm |-> tx[ti].insider_norm,
           donor        |-> best,
           donor_id     |-> IF best # NoDonor THEN dprep[best].donor_id ELSE None,
           donor_name   |-> IF best # NoDonor THEN dprep[best].name ELSE <<>>,
           score        |-> best_score,
           status       |-> Status(best_score, thresholds),
           breakdown    |-> best_breakdown ])
    /\ mpc' = "transactions"
    /\ UNCHANGED <<transactions, donors, thresholds, nick, mtitles, wratio, dprep, tx,
                   ti, di, best_score, best, best_breakdown>>

\* Line 99: the transactions are exhausted.
MatchReturn ==
    /\ mpc = "transactions"
    /\ ti = Len(tx)
    /\ mpc' = "done"
    /\ UNCHANGED <<transactions, donors, thresholds, nick, mtitles, wratio, dprep, tx,
                   ti, di, best_score, best, best_breakdown, rows>>

(***************************************************************************)
(*                    Specification of the normaliser                      *)
(***************************************************************************)
ScoreIdle == spc = "idle" /\ sp_in = <<>> /\ sp_out = <<>>

MatchIdle ==
    /\ mpc = "idle" /\ transactions = <<>> /\ donors = <<>> /\ thresholds = <<>>
    /\ nick = <<>> /\ mtitles = {} /\ wratio = {} /\ dprep = <<>> /\ tx = <<>>
    /\ ti = 0 /\ di = 0 /\ best_score = 0 /\ best = 0 /\ best_breakdown = <<>>
    /\ rows = <<>>

InitNorm == ParseIdle /\ NormStart /\ ScoreIdle /\ MatchIdle

NextNorm ==
    \/ Normalise /\ UNCHANGED <<parseVars, scoreVars, matchVars>>
    \/ Renormalise /\ UNCHANGED <<parseVars, scoreVars, matchVars>>

SpecNorm == InitNorm /\ [][NextNorm]_vars

\* C3: normalising a normalised name with an empty title set returns it unchanged,
\* for every input name and title set, names with a comma included.
C3_Idempotent == npc = "twice" => norm2 = norm1

\* The same statement for the names the 'Last, First' conversion does not apply to.
IdempotentWithoutReorder == (npc = "twice" /\ ~Reorders(name)) => norm2 = norm1

(***************************************************************************)
(*                    Specification of score_pair                          *)
(***************************************************************************)
InitScore == ParseIdle /\ NormIdle /\ ScoreStart /\ MatchIdle

NextScore == ScorePair /\ UNCHANGED <<parseVars, normVars, matchVars>>

SpecScore == InitScore /\ [][NextScore]_vars

\* C4: the overall score of every pair lies in 0..90, and in 0..80 when no alias
\* bonus applies.
C4_ScoreBound ==
    spc = "scored" =>
        /\ 0 <= sp_out.overall /\ sp_out.overall <= 90
        /\ (sp_out.breakdown.alias_bonus = 0 => sp_out.overall <= 80)

\* A pair that reaches the ceiling of 90 with the alias bonus, last_exact and
\* first_ratio saturated.
C4_Witness ==
    /\ spc = "scored"
    /\ sp_out.overall = 90
    /\ sp_out.breakdown = [last_exact |-> 100, first_ratio |-> 100, alias_bonus |-> 10]

(***************************************************************************)
(*                    Specification of the matcher                         *)
(***************************************************************************)
InitMatch == ParseIdle /\ NormIdle /\ ScoreIdle /\ MatchStart

NextMatch ==
    \/ Prepare /\ UNCHANGED <<parseVars, normVars, scoreVars>>
    \/ NextTransaction /\ UNCHANGED <<parseVars, normVars, scoreVars>>
    \/ ScoreDonor /\ UNCHANGED <<parseVars, normVars, scoreVars>>
    \/ AppendRow /\ UNCHANGED <<parseVars, normVars, scoreVars>>
    \/ MatchReturn /\ UNCHANGED <<parseVars, normVars, scoreVars>>

SpecMatch == InitMatch /\ [][NextMatch]_vars

\* The value fuzz.WRatio returned for the first names a and b.
WRatioOf(a, b) == (CHOOSE e \in wratio : e[1] = a /\ e[2] = b)[3]

\* The score of row k's transaction against donor j, with the value fuzz.WRatio
\* returned for the pair.
PairScore(k, j) ==
    score_pair(tx[k].insider_norm, dprep[j].name_norm, dprep[j].alias_firsts,
               WRatioOf(split_first_last(tx[k].insider_norm)[1],
                        split_first_last(dprep[j].name_norm)[1]))

MaxOverall(k) == Max({PairScore(k, j).overall : j \in 1..Len(dprep)})

\* C5: with at least one donor, the donor of every row returned is the earliest donor in
\* input order whose overall score is the maximum over all donors, and the row's
\* score and breakdown are that donor's.
C5_EarliestMaximum ==
    \A k \in 1..Len(rows) :
        (mpc = "done" /\ Len(dprep) >= 1) =>
            /\ rows[k].donor = Min({j \in 1..Len(dprep) : PairScore(k, j).overall = MaxOverall(k)})
            /\ rows[k].score = MaxOverall(k)
            /\ rows[k].score = PairScore(k, rows[k].donor).overall
            /\ rows[k].breakdown = PairScore(k, rows[k].donor).breakdown
            /\ rows[k].donor_id = dprep[rows[k].donor].donor_id
            /\ rows[k].donor_name = dprep[rows[k].donor].name

\* A row for which two different donors tie at the maximum; the earlier one is kept.
C5_Witness ==
    \E k \in 1..Len(rows) :
        /\ mpc = "done"
        /\ Len(dprep) = 2
        /\ dprep[1].donor_id # dprep[2].donor_id
        /\ PairScore(k, 1).overall = PairScore(k, 2).overall
        /\ rows[k].donor = 1

\* The roster [John Smith, donor_id 1], the transaction of insider 'Smith, John' and
\* the thresholds high = 90, review = 80; 'john' is no key of the nickname table.
Scenario ==
    /\ donors = << [name |-> r_John_Smith, donor_id |-> "1", aliases |-> <<>>] >>
    /\ transactions = << [tx_id |-> "123456789", insider_name |-> r_Smith_John] >>
    /\ thresholds = [high |-> 90, review |-> 80]
    /\ n_john \notin DOMAIN nick

\* C6, as stated: in the scenario the match has donor_id 1, last_exact 100,
\* first_ratio 100, score 80 and status review.
C6_Original ==
    (mpc = "done" /\ Scenario) =>
        /\ Len(rows) = 1
        /\ rows[1].donor_id = "1"
        /\ rows[1].breakdown.last_exact = 100
        /\ rows[1].breakdown.first_ratio = 100
        /\ rows[1].score = 80
        /\ rows[1].status = "review"

\* C6, amended: in the scenario the match has donor_id 1, last_exact 100,
\* first_ratio 100 and alias_bonus 10 (a donor's own normalised first name is always
\* one of its alias_firsts), score 90 and status likely.
C6_ScenarioLikely ==
    (mpc = "done" /\ Scenario) =>
        /\ Len(rows) = 1
        /\ rows[1].donor_id = "1"
        /\ rows[1].insider_norm = n_john_smith
        /\ rows[1].breakdown = [last_exact |-> 100, first_ratio |-> 100, alias_bonus |-> 10]
        /\ rows[1].score = 90
        /\ rows[1].status = "likely"

\* The scenario has run to its end.
C6_Witness == mpc = "done" /\ Scenario /\ Len(rows) = 1

EmptyDonorsAllLowAboveSentinel ==
    (mpc = "done" /\ donors = <<>> /\ thresholds.high > -1 /\ thresholds.review > -1) =>
        \A k \in 1..Len(rows) :
            /\ rows[k].donor_id = None
            /\ rows[k].score = -1
            /\ rows[k].status = "low"

C9_Tiering ==
    \A k \in 1..Len(rows) :
        LET sc == rows[k].score
            st == rows[k].status
        IN /\ st \in {"likely", "review", "low"}
           /\ st = "likely" <=> sc >= thresholds.high
           /\ st = "review" <=> (sc >= thresholds.review /\ sc < thresholds.high)
           /\ st = "low" <=> (sc < thresholds.review /\ sc < thresholds.high)
           /\ thresholds.review >= thresholds.high => st # "review"

\* With review above high, a row whose score equals high, below review, is likely.
C9_Witness ==
    /\ thresholds.review > thresholds.high
    /\ \E k \in 1..Len(rows) :
          /\ rows[k].score = thresholds.high /\ rows[k].score < thresholds.review
          /\ rows[k].status = "likely"

(***************************************************************************)
(*                    Specification of the extractor                       *)
(***************************************************************************)
InitParse == ParseStart /\ NormIdle /\ ScoreIdle /\ MatchIdle

NextParse ==
    \/ NextPage /\ UNCHANGED <<normVars, scoreVars, matchVars>>
    \/ ScanLine /\ UNCHANGED <<normVars, scoreVars, matchVars>>
    \/ EndPage /\ UNCHANGED <<normVars, scoreVars, matchVars>>
    \/ ParseReturn /\ UNCHANGED <<normVars, scoreVars, matchVars>>

SpecParse == InitParse /\ [][NextParse]_vars

\* The positions <<page, line>> of the lines scanned so far.
Scanned == {<<p, l>> \in (1..Len(doc)) \X (1..MaxTotalLines + 1) : l <= Len(doc[p])}

\* The header pattern named kind matches the line.
Matches(kind, line) ==
    IF kind = "issuer" THEN IssuerMatch(line)
    ELSE IF kind = "insider" THEN InsiderMatch(line)
    ELSE RelMatch(line)

\* The lines of page p before line l that are headers of the kind.
HeadersBefore(p, l, kind) ==
    {k \in 1..(l-1) : k <= Len(doc[p]) /\ Matches(kind, doc[p][k])}

\* A transaction row scanned on a page before any Insider header of that page.
OrphanRows == {x \in Scanned : TxMatch(doc[x[1]][x[2]])
                               /\ HeadersBefore(x[1], x[2], "insider") = {}}

\* C1: every emitted record, and every record of the returned table, has an
\* insider_name that is neither None nor empty; a transaction row scanned before any
\* Insider header has set the insider is never emitted.
C1_InsiderNeverNull ==
    /\ \A i \in 1..Len(records) : records[i].insider_name \notin {None, ""}
    /\ \A i \in 1..Len(df) : df[i].insider_name \notin {None, ""}
    /\ \A x \in OrphanRows : \A i \in 1..Len(emitted_at) : emitted_at[i] # x

\* A finished run that scanned a row without an insider, and emitted another row.
C1_Witness == pc = "done" /\ OrphanRows # {} /\ Len(df) >= 1

FirstWithKey(key) == Min({i \in 1..Len(records) : DedupKey(records[i]) = key})

\* C2: the returned table holds no two records with the same (tx_id, insider_name,
\* issuer), None being an issuer like any other; it holds one record for every
\* triple emitted, and that record is the first one emitted with the triple, all
\* its fields included.
C2_DedupKeepsFirst ==
    pc = "done" =>
        /\ \A i, j \in 1..Len(df) : DedupKey(df[i]) = DedupKey(df[j]) => i = j
        /\ \A i \in 1..Len(records) : \E j \in 1..Len(df) : DedupKey(df[j]) = DedupKey(records[i])
        /\ \A j \in 1..Len(df) :
              /\ \E i \in 1..Len(records) : DedupKey(records[i]) = DedupKey(df[j])
              /\ df[j] = records[FirstWithKey(DedupKey(df[j]))]

\* A finished run in which a triple with a None issuer was emitted twice, the two
\* records differing in another field, and one record was dropped.
C2_Witness ==
    /\ pc = "done"
    /\ Len(df) < Len(records)
    /\ \E i, j \in 1..Len(records) :
          /\ i < j
          /\ DedupKey(records[i]) = DedupKey(records[j])
          /\ records[i] # records[j]
          /\ records[i].issuer = None

\* The value of the last header matching M among the lines K of page p; None if K
\* is empty.
LastValue(p, K) == IF K = {} THEN None ELSE doc[p][Max(K)].val

\* The context in force at line l of page p, read off the page's lines.
IssuerAt(p, l) == LastValue(p, HeadersBefore(p, l, "issuer"))

InsiderAt(p, l) == LastValue(p, HeadersBefore(p, l, "insider"))

RelationshipAt(p, l) ==
    LET ins == HeadersBefore(p, l, "insider")
        rel == HeadersBefore(p, l, "rel")
    IN LastValue(p, IF ins = {} THEN rel ELSE {k \in rel : k > Max(ins)})

\* C10: every record carries the issuer of the last Issuer header before its row on
\* the same page (None if none), the insider of the last Insider header before it on
\* the same page, and the relationship of the last Relationship header after that
\* Insider header (None if none); while a page is scanned the three locals are
\* those values for the next line, so that nothing carries over from an earlier
\* page and blank or unrecognised lines change nothing.
C10_ContextInForce ==
    /\ \A i \in 1..Len(records) :
          LET p == emitted_at[i][1]
              l == emitted_at[i][2]
          IN /\ records[i].issuer = IssuerAt(p, l)
             /\ records[i].insider_name = InsiderAt(p, l)
             /\ records[i].relationship = RelationshipAt(p, l)
    /\ pc = "lines" =>
          LET p == Len(doc)
              l == Len(doc[p]) + 1
          IN /\ issuer = IssuerAt(p, l)
             /\ insider = InsiderAt(p, l)
             /\ relationship = RelationshipAt(p, l)

\* A record emitted with relationship None although a Relationship header precedes
\* its row on the page (a later Insider header reset it).
C10_Witness ==
    \E i \in 1..Len(records) :
        /\ records[i].relationship = None
        /\ HeadersBefore(emitted_at[i][1], emitted_at[i][2], "rel") # {}

\* A record on the second page that carries no issuer although the first page had an
\* Issuer header.
C10_WitnessPage ==
    \E i \in 1..Len(records) :
        /\ emitted_at[i][1] = 2
        /\ records[i].issuer = None
        /\ HeadersBefore(1, Len(doc[1]) + 1, "issuer") # {}

=============================================================================
